---- MODULE Spec2Model ----
(***************************************************************************)
(* Model of cdk/s3_benchmarks/s3_benchmarks_stack.py: the construction of  *)
(* S3BenchmarksStack (one Vpc, one batch resource set per instance type,   *)
(* one orchestrator resource set, one GitCommit output) and its two module *)
(* level helpers _max_container_memory and                                 *)
(* _ec2_instance_type_to_ecr_platform.                                     *)
(*                                                                         *)
(* Strings the code computes on character by character (instance-type     *)
(* ids, the stdout of git) are sequences of one-character strings.  A      *)
(* construct id f"Prefix-{name}" is the sequence <<"Prefix-">> \o name:    *)
(* the literal prefix is kept as one element.                              *)
(*                                                                         *)
(* Memory amounts are whole MiB.  The reserve instance_MiB * 0.15 is not   *)
(* a whole number in general, so reserves are carried in hundredths of a   *)
(* MiB (15 * instance_MiB); floor() is \div, which rounds toward minus     *)
(* infinity as math.floor does.                                            *)
(***************************************************************************)
EXTENDS Integers, Sequences, FiniteSets, TLC

VARIABLES
    ALL_INSTANCE_TYPES, \* s3_benchmarks.ALL_INSTANCE_TYPES: the configured list
    architecture,       \* ec2.InstanceType(id).architecture, for every id
    pc,                 \* position in S3BenchmarksStack.__init__
    next_type,          \* index of the next element the for loop visits
    children,           \* constructs declared in the stack's scope, in order
    raised,             \* the exception that left __init__, or "none"
    run_result,         \* <<what subprocess.run came back with>>, <<>> before
    instance_MiB,       \* argument of a direct _max_container_memory call
    mem_pc,             \* "call", then "returned" or "raised"
    container_MiB,      \* <<the amount the call computed>>, <<>> before
    id_a, id_b,         \* two instance-type ids whose names are derived
    name_a, name_b      \* <<derived name>> of each, <<>> before derivation

genVars ==
    <<ALL_INSTANCE_TYPES, architecture, pc, next_type, children, raised, run_result>>
memVars == <<instance_MiB, mem_pc, container_MiB>>
nameVars == <<id_a, id_b, name_a, name_b>>
vars == <<genVars, memVars, nameVars>>

----------------------------------------------------------------------------
(* Bounds of the model *)

\* longest configured instance-type list
MaxTypes == 2
\* longest stdout of the git command, in characters
MaxStdoutLen == 3
\* longest instance-type id in the naming specification, in characters
MaxIdLen == 5
\* direct calls of _max_container_memory take every total in 0..MaxTotalMiB
MaxTotalMiB == 4200

----------------------------------------------------------------------------
(* Strings *)

\* "c5n.18xlarge"
c5n_18xlarge == <<"c", "5", "n", ".", "1", "8", "x", "l", "a", "r", "g", "e">>
\* "c6g.medium"
c6g_medium == <<"c", "6", "g", ".", "m", "e", "d", "i", "u", "m">>
\* "c5.n-x" and "c5-n.x": two ids that differ only in where '.' and '-' stand
c5_dot_n_x == <<"c", "5", ".", "n", "-", "x">>
c5_n_dot_x == <<"c", "5", "-", "n", ".", "x">>

\* ids the configured list is drawn from
InstanceIds == {c5n_18xlarge, c6g_medium, c5_dot_n_x, c5_n_dot_x}
\* vCPU count and memory (GiB) the configured types are drawn from: those of
\* c6g.medium and of c5n.18xlarge
Sizes == {[vcpu |-> 1, mem_GiB |-> 2], [vcpu |-> 72, mem_GiB |-> 192]}

\* all sequences over S of length lo..hi
SeqsOf(S, lo, hi) == UNION {[1..n -> S] : n \in lo..hi}

Range(s) == {s[i] : i \in DOMAIN s}

\* str.replace(old, new) for one-character old and new
Replace(s, old, new) == [i \in DOMAIN s |-> IF s[i] = old THEN new ELSE s[i]]

Whitespace == {" ", "\n", "\t"}

\* str.strip(): drop leading and trailing whitespace
RECURSIVE LStrip(_)
LStrip(s) == IF s # <<>> /\ Head(s) \in Whitespace THEN LStrip(Tail(s)) ELSE s
RECURSIVE RStrip(_)
RStrip(s) ==
    IF s # <<>> /\ s[Len(s)] \in Whitespace
    THEN RStrip(SubSeq(s, 1, Len(s) - 1)) ELSE s
Strip(s) == RStrip(LStrip(s))

----------------------------------------------------------------------------
(* Module-level helpers *)

reserved_ratio_percent == 15
reserved_min_MiB == 512

\* instance_type_memory.to_mebibytes() of cdk.Size.gibibytes(g)
GiBToMiB(g) == g * 1024

\* slip: min() where the code has max()
reserved_MiB_x100_min(total_MiB) ==
    IF reserved_min_MiB * 100 >= total_MiB * reserved_ratio_percent
    THEN total_MiB * reserved_ratio_percent
    ELSE reserved_min_MiB * 100

\* reserved_MiB = max(reserved_min_MiB, instance_MiB * reserved_ratio),
\* in hundredths of a MiB
reserved_MiB_x100(total_MiB) ==
    IF reserved_min_MiB * 100 >= total_MiB * reserved_ratio_percent
    THEN reserved_min_MiB * 100
    ELSE total_MiB * reserved_ratio_percent

\* slip: the reserve added to the total instead of taken from it
_max_container_memory_plus(total_MiB) ==
    (total_MiB * 100 + reserved_MiB_x100(total_MiB)) \div 100

\* slip: the reserve floored to whole MiB before the subtraction
_max_container_memory_floor_reserve(total_MiB) ==
    total_MiB - (reserved_MiB_x100(total_MiB) \div 100)

\* container_MiB = floor(instance_MiB - reserved_MiB), the amount handed to
\* cdk.Size.mebibytes; the code has no check of its sign
_max_container_memory(total_MiB) ==
    (total_MiB * 100 - reserved_MiB_x100(total_MiB)) \div 100

InstanceArchitecture == {"ARM_64", "X86_64"}

\* slip: the ARM branch left out
_ec2_instance_type_to_ecr_platform_amd_only(arch) == "LINUX_AMD64"

_ec2_instance_type_to_ecr_platform(arch) ==
    IF arch = "ARM_64" THEN "LINUX_ARM64" ELSE "LINUX_AMD64"

----------------------------------------------------------------------------
(* S3BenchmarksStack *)

PER_INSTANCE_JOB_TIMEOUT_HOURS == "s3_benchmarks.PER_INSTANCE_JOB_TIMEOUT_HOURS"
ORCHESTRATOR_JOB_TIMEOUT_HOURS == "s3_benchmarks.ORCHESTRATOR_JOB_TIMEOUT_HOURS"

\* slip: the arguments of replace() exchanged
id_with_hyphens_swapped(id) == Replace(id, "-", ".")

\* instance_type.id.replace('.', '-')
id_with_hyphens(id) == Replace(id, ".", "-")

\* InstanceType.resource_name(), the name the orchestrator script refers to
resource_name(id) == Replace(id, ".", "-")

\* the architecture the framework reports for ec2.InstanceType(id); which ids
\* it takes for ARM is the framework's business, so every classification of
\* the ids is considered
Architectures == [InstanceIds -> InstanceArchitecture]

\* Construct(scope, id, ...): each construct in turn joins the scope, and
\* the first whose id is already used in the scope raises instead
RECURSIVE Declare(_, _)
Declare(scope, new) ==
    IF new = <<>> THEN [children |-> scope, raised |-> "none"]
    ELSE IF \E k \in DOMAIN scope : scope[k].id = Head(new).id
         THEN [children |-> scope, raised |-> "DuplicateConstructId"]
         ELSE Declare(Append(scope, Head(new)), Tail(new))

Vpc == [kind |-> "Vpc", id |-> <<"Vpc">>]

\* slip: the orchestrator's maxv_cpus=1 copied into the per-instance environment
PerInstanceComputeEnv_one_vcpu(instance_type) ==
    [kind |-> "ManagedEc2EcsComputeEnvironment",
     id |-> <<"PerInstanceComputeEnv-">> \o id_with_hyphens(instance_type.id),
     minv_cpus |-> 0,
     maxv_cpus |-> 1,
     instance_types |-> <<instance_type.id>>,
     use_optimal_instance_classes |-> FALSE,
     vpc |-> Vpc.id,
     vpc_subnets |-> "PRIVATE_WITH_EGRESS"]

PerInstanceComputeEnv(instance_type) ==
    [kind |-> "ManagedEc2EcsComputeEnvironment",
     id |-> <<"PerInstanceComputeEnv-">> \o id_with_hyphens(instance_type.id),
     minv_cpus |-> 0,
     maxv_cpus |-> instance_type.vcpu,
     instance_types |-> <<instance_type.id>>,
     use_optimal_instance_classes |-> FALSE,
     vpc |-> Vpc.id,
     vpc_subnets |-> "PRIVATE_WITH_EGRESS"]

PerInstanceJobQueue(instance_type, compute_env) ==
    [kind |-> "JobQueue",
     id |-> <<"PerInstanceJobQueue-">> \o id_with_hyphens(instance_type.id),
     job_queue_name |-> resource_name(instance_type.id),
     compute_environments |->
         <<[compute_environment |-> compute_env.id, order |-> 0]>>]

PerInstanceContainerDefn(instance_type, arch) ==
    [kind |-> "EcsEc2ContainerDefinition",
     id |-> <<"PerInstanceContainerDefn-">> \o id_with_hyphens(instance_type.id),
     file |-> "per_instance_job.Dockerfile",
     platform |-> _ec2_instance_type_to_ecr_platform(arch),
     cpu |-> instance_type.vcpu,
     memory_MiB |-> _max_container_memory(GiBToMiB(instance_type.mem_GiB)),
     command |-> <<"python3", "/per_instance_job.py">>]

\* slip: the orchestrator's timeout constant used for the per-instance job
PerInstanceJobDefn_orchestrator_timeout(instance_type, container_defn) ==
    [kind |-> "EcsJobDefinition",
     id |-> <<"PerInstanceJobDefn-">> \o id_with_hyphens(instance_type.id),
     job_definition_name |-> resource_name(instance_type.id),
     container |-> container_defn.id,
     timeout_hours |-> ORCHESTRATOR_JOB_TIMEOUT_HOURS]

PerInstanceJobDefn(instance_type, container_defn) ==
    [kind |-> "EcsJobDefinition",
     id |-> <<"PerInstanceJobDefn-">> \o id_with_hyphens(instance_type.id),
     job_definition_name |-> resource_name(instance_type.id),
     container |-> container_defn.id,
     timeout_hours |-> PER_INSTANCE_JOB_TIMEOUT_HOURS]

\* the constructs _define_per_instance_batch_job creates, in creation order
PerInstanceConstructs(instance_type, arch) ==
    LET compute_env == PerInstanceComputeEnv(instance_type)
        job_queue == PerInstanceJobQueue(instance_type, compute_env)
        container_defn == PerInstanceContainerDefn(instance_type, arch)
        job_defn == PerInstanceJobDefn(instance_type, container_defn)
    IN  <<compute_env, job_queue, container_defn, job_defn>>

OrchestratorComputeEnv ==
    [kind |-> "ManagedEc2EcsComputeEnvironment",
     id |-> <<"OrchestratorComputeEnv">>,
     minv_cpus |-> 0,
     maxv_cpus |-> 1,
     instance_types |-> <<c6g_medium>>,
     use_optimal_instance_classes |-> FALSE,
     vpc |-> Vpc.id,
     vpc_subnets |-> "PRIVATE_WITH_EGRESS"]

OrchestratorJobQueue(compute_env) ==
    [kind |-> "JobQueue",
     id |-> <<"OrchestratorJobQueue">>,
     compute_environments |->
         <<[compute_environment |-> compute_env.id, order |-> 0]>>]

OrchestratorContainerDefn(arch) ==
    [kind |-> "EcsEc2ContainerDefinition",
     id |-> <<"OrchestratorContainerDefn">>,
     file |-> "orchestrator_job.Dockerfile",
     platform |-> _ec2_instance_type_to_ecr_platform(arch),
     cpu |-> 1,
     memory_MiB |-> 256,
     command |-> <<"python3", "/orchestrator_job.py">>]

OrchestratorJobDefn(container_defn) ==
    [kind |-> "EcsJobDefinition",
     id |-> <<"OrchestratorJobDefn">>,
     container |-> container_defn.id,
     timeout_hours |-> ORCHESTRATOR_JOB_TIMEOUT_HOURS]

\* slip: the orchestrator's job queue is never created
OrchestratorConstructs_no_queue(arch) ==
    LET compute_env == OrchestratorComputeEnv
        container_defn == OrchestratorContainerDefn(arch)
        job_defn == OrchestratorJobDefn(container_defn)
    IN  <<compute_env, container_defn, job_defn>>

\* the constructs _define_orchestrator_batch_job creates, in creation order
OrchestratorConstructs(arch) ==
    LET compute_env == OrchestratorComputeEnv
        job_queue == OrchestratorJobQueue(compute_env)
        container_defn == OrchestratorContainerDefn(arch)
        job_defn == OrchestratorJobDefn(container_defn)
    IN  <<compute_env, job_queue, container_defn, job_defn>>

GitCommit(git_commit) ==
    [kind |-> "CfnOutput",
     id |-> <<"GitCommit">>,
     value |-> git_commit,
     description |-> "Git commit this stack was generated from"]

\* what subprocess.run(['git', 'rev-parse', 'HEAD']) can come back with: exit
\* status 0 and a stdout, or a non-zero exit status (128 outside a checkout)
GitStdouts == SeqsOf({"a", "\n"}, 0, MaxStdoutLen)
GitRuns ==
    {[returncode |-> 0, stdout |-> s] : s \in GitStdouts}
    \cup {[returncode |-> 128, stdout |-> <<>>]}

InstanceTypes ==
    {[id |-> i, vcpu |-> s.vcpu, mem_GiB |-> s.mem_GiB] :
        i \in InstanceIds, s \in Sizes}

HasDistinctIds(list) ==
    \A i, j \in DOMAIN list : list[i].id = list[j].id => i = j

----------------------------------------------------------------------------
(* S3BenchmarksStack.__init__, one action per statement of its body *)

\* the values the variables of the other specifications rest at
MemIdle == instance_MiB = 0 /\ mem_pc = "call" /\ container_MiB = <<>>
NameIdle == id_a = <<>> /\ id_b = <<>> /\ name_a = <<>> /\ name_b = <<>>
GenIdle ==
    /\ ALL_INSTANCE_TYPES = <<>>
    /\ architecture = [id \in InstanceIds |-> "X86_64"]
    /\ pc = "Vpc" /\ next_type = 1 /\ children = <<>> /\ raised = "none"
    /\ run_result = <<>>

Init ==
    /\ ALL_INSTANCE_TYPES \in
           {l \in SeqsOf(InstanceTypes, 0, MaxTypes) : HasDistinctIds(l)}
    /\ architecture \in Architectures
    /\ pc = "Vpc"
    /\ next_type = 1
    /\ children = <<>>
    /\ raised = "none"
    /\ run_result = <<>>
    /\ MemIdle
    /\ NameIdle

\* the outcome of declaring `new` in the stack's scope: on success control
\* moves to `then` (and the loop index to `index`), on a raise it leaves __init__
DeclareAll(new, then, index) ==
    LET out == Declare(children, new)
    IN  /\ children' = out.children
        /\ raised' = out.raised
        /\ pc' = IF out.raised = "none" THEN then ELSE "raised"
        /\ next_type' = IF out.raised = "none" THEN index ELSE next_type

\* self.vpc = ec2.Vpc(self, "Vpc")
DefineVpc ==
    /\ pc = "Vpc"
    /\ DeclareAll(<<Vpc>>, "for", next_type)
    /\ UNCHANGED <<ALL_INSTANCE_TYPES, architecture, run_result, memVars, nameVars>>

\* one iteration of: for instance_type in s3_benchmarks.ALL_INSTANCE_TYPES
DefinePerInstanceBatchJob ==
    /\ pc = "for"
    /\ next_type <= Len(ALL_INSTANCE_TYPES)
    /\ LET instance_type == ALL_INSTANCE_TYPES[next_type]
       IN  DeclareAll(
               PerInstanceConstructs(instance_type, architecture[instance_type.id]),
               "for", next_type + 1)
    /\ UNCHANGED <<ALL_INSTANCE_TYPES, architecture, run_result, memVars, nameVars>>

\* self._define_orchestrator_batch_job(), once the loop is exhausted
DefineOrchestratorBatchJob ==
    /\ pc = "for"
    /\ next_type > Len(ALL_INSTANCE_TYPES)
    /\ DeclareAll(OrchestratorConstructs(architecture[c6g_medium]),
                  "git", next_type)
    /\ UNCHANGED <<ALL_INSTANCE_TYPES, architecture, run_result, memVars, nameVars>>

\* slip: check=True left out, so a failed git still yields an output
AddGitCommitCfnOutput_unchecked ==
    /\ pc = "git"
    /\ \E run \in GitRuns :
           /\ run_result' = <<run>>
           /\ LET git_commit == Strip(run.stdout)
              IN  DeclareAll(<<GitCommit(git_commit)>>, "done", next_type)
    /\ UNCHANGED <<ALL_INSTANCE_TYPES, architecture, memVars, nameVars>>

\* self._add_git_commit_cfn_output(): check=True turns a non-zero exit status
\* into CalledProcessError before anything is declared
AddGitCommitCfnOutput ==
    /\ pc = "git"
    /\ \E run \in GitRuns :
           /\ run_result' = <<run>>
           /\ IF run.returncode # 0
              THEN /\ raised' = "CalledProcessError"
                   /\ pc' = "raised"
                   /\ UNCHANGED <<children, next_type>>
              ELSE LET git_commit == Strip(run.stdout)
                   IN  DeclareAll(<<GitCommit(git_commit)>>, "done", next_type)
    /\ UNCHANGED <<ALL_INSTANCE_TYPES, architecture, memVars, nameVars>>

Next ==
    \/ DefineVpc
    \/ DefinePerInstanceBatchJob
    \/ DefineOrchestratorBatchJob
    \/ AddGitCommitCfnOutput

Spec == Init /\ [][Next]_vars

----------------------------------------------------------------------------
(* _max_container_memory called on its own, for every total *)

\* 0.5 GiB (t2.nano) .. MaxTotalMiB, and the sizes of the configured types
Totals == 0..MaxTotalMiB \cup {GiBToMiB(s.mem_GiB) : s \in Sizes}

InitMem ==
    /\ instance_MiB \in Totals
    /\ mem_pc = "call"
    /\ container_MiB = <<>>
    /\ GenIdle
    /\ NameIdle

\* return cdk.Size.mebibytes(container_MiB): a Size of a negative amount
\* cannot be made, the constructor raises; zero is an amount like any other
MaxContainerMemory ==
    /\ mem_pc = "call"
    /\ LET c == _max_container_memory(instance_MiB)
       IN  IF c < 0
           THEN mem_pc' = "raised" /\ container_MiB' = <<c>>
           ELSE mem_pc' = "returned" /\ container_MiB' = <<c>>
    /\ UNCHANGED <<instance_MiB, genVars, nameVars>>

NextMem == MaxContainerMemory

SpecMem == InitMem /\ [][NextMem]_vars

----------------------------------------------------------------------------
(* The name derivation of _define_per_instance_batch_job, for any two ids *)

IdAlphabet == {"c", "5", ".", "-"}

\* the shape of an instance-type id, "family.size": one '.', with a family
\* before it and a size after it that neither start nor end with '-'
\* (as in "u-6tb1.metal" or "m7i.metal-24xl")
WellFormedId(id) ==
    \E dot \in 2..(Len(id) - 1) :
        /\ \A q \in DOMAIN id : id[q] = "." <=> q = dot
        /\ "-" \notin {id[1], id[dot - 1], id[dot + 1], id[Len(id)]}

Ids == {id \in SeqsOf(IdAlphabet, 3, MaxIdLen) : WellFormedId(id)}

InitName ==
    /\ id_a \in Ids
    /\ id_b \in Ids
    /\ name_a = <<>>
    /\ name_b = <<>>
    /\ GenIdle
    /\ MemIdle

DeriveNames ==
    /\ name_a = <<>>
    /\ name_a' = <<id_with_hyphens(id_a)>>
    /\ name_b' = <<id_with_hyphens(id_b)>>
    /\ UNCHANGED <<id_a, id_b, genVars, memVars>>

NextName == DeriveNames

SpecName == InitName /\ [][NextName]_vars

----------------------------------------------------------------------------
(* Properties of _max_container_memory (under SpecMem) *)

Returned == mem_pc = "returned"

C4_RejectsTooSmall ==
    Returned =>
        /\ reserved_MiB_x100(instance_MiB) < 100 * instance_MiB
        /\ container_MiB[1] > 0

\* C8: the call returns a whole number of MiB strictly below the total, and
\* the same for the same total: total - 512, or 0.85 * total rounded down.
C8_WholeAndBelowTotal ==
    Returned =>
        /\ container_MiB[1] \in Int
        /\ container_MiB[1] < instance_MiB
        /\ container_MiB[1] = instance_MiB - 512
           \/ container_MiB[1] * 20 \in (17 * instance_MiB - 19)..(17 * instance_MiB)

\* c5.large's 4 GiB: 4096 - 614.4 = 3481.6, returned as 3481
C8_Witness == Returned /\ instance_MiB = 4096 /\ container_MiB = <<3481>>

----------------------------------------------------------------------------
(* Properties of the stack's construction (under Spec) *)

N == Len(ALL_INSTANCE_TYPES)

\* the number of instance types whose resource set has been declared
Processed == next_type - 1

\* the loop is over and the orchestrator's resource set has been declared
OrchestratorDeclared == pc \in {"git", "done"} \/ raised = "CalledProcessError"

\* the constructs the k-th iteration declared, by their place in the scope
compute_env_of(k) == children[4 * k - 2]
job_queue_of(k) == children[4 * k - 1]
container_defn_of(k) == children[4 * k]
job_defn_of(k) == children[4 * k + 1]

\* C1: for every instance type the loop has visited, the compute
\* environment's maximum vCPUs, the container's CPU request and the type's
\* vCPU count are equal and the minimum is 0; the orchestrator's compute
\* environment has maximum 1, minimum 0, and its container asks for 1 CPU.
C1_CapacityMatchesCpu ==
    /\ \A k \in 1..Processed :
           /\ compute_env_of(k).kind = "ManagedEc2EcsComputeEnvironment"
           /\ container_defn_of(k).kind = "EcsEc2ContainerDefinition"
           /\ compute_env_of(k).minv_cpus = 0
           /\ compute_env_of(k).maxv_cpus = ALL_INSTANCE_TYPES[k].vcpu
           /\ container_defn_of(k).cpu = ALL_INSTANCE_TYPES[k].vcpu
    /\ OrchestratorDeclared =>
           /\ compute_env_of(N + 1).kind = "ManagedEc2EcsComputeEnvironment"
           /\ container_defn_of(N + 1).kind = "EcsEc2ContainerDefinition"
           /\ compute_env_of(N + 1).minv_cpus = 0
           /\ compute_env_of(N + 1).maxv_cpus = 1
           /\ container_defn_of(N + 1).cpu = 1

C1_Witness ==
    /\ pc = "done" /\ N = 2
    /\ ALL_INSTANCE_TYPES[1].vcpu = 1 /\ ALL_INSTANCE_TYPES[2].vcpu = 72

c5n_18xlarge_type == [id |-> c5n_18xlarge, vcpu |-> 72, mem_GiB |-> 192]

c5n_18xlarge_name == <<"c", "5", "n", "-", "1", "8", "x", "l", "a", "r", "g", "e">>

\* C3 as stated: for c5n.18xlarge (72 vCPU, 192 GiB = 196608 MiB) the derived
\* name is "c5n-18xlarge", 29491 MiB are reserved and the container is
\* declared with exactly 167117 MiB.
C3_Original ==
    \A k \in 1..Processed :
        ALL_INSTANCE_TYPES[k] = c5n_18xlarge_type =>
            /\ container_defn_of(k).id = <<"PerInstanceContainerDefn-">> \o c5n_18xlarge_name
            /\ reserved_MiB_x100(196608) = 29491 * 100
            /\ container_defn_of(k).memory_MiB = 167117

\* C3 amended: for c5n.18xlarge (72 vCPU, 192 GiB = 196608 MiB) the derived
\* name is "c5n-18xlarge", 29491.2 MiB are reserved and the container is
\* declared with exactly 167116 MiB.
C3_C5nContainerMemory ==
    \A k \in 1..Processed :
        ALL_INSTANCE_TYPES[k] = c5n_18xlarge_type =>
            /\ container_defn_of(k).id = <<"PerInstanceContainerDefn-">> \o c5n_18xlarge_name
            /\ compute_env_of(k).id = <<"PerInstanceComputeEnv-">> \o c5n_18xlarge_name
            /\ reserved_MiB_x100(196608) = 2949120
            /\ container_defn_of(k).memory_MiB = 167116

C3_Witness ==
    /\ pc = "done" /\ N = 1
    /\ ALL_INSTANCE_TYPES[1] = c5n_18xlarge_type
    /\ container_defn_of(1).memory_MiB = 167116

\* C9: every container definition is built for LINUX_ARM64 or LINUX_AMD64,
\* and for LINUX_ARM64 exactly when its instance type's architecture is ARM_64.
C9_PlatformFollowsArchitecture ==
    /\ \A k \in 1..Processed :
           /\ container_defn_of(k).platform \in {"LINUX_ARM64", "LINUX_AMD64"}
           /\ container_defn_of(k).platform = "LINUX_ARM64"
                  <=> architecture[ALL_INSTANCE_TYPES[k].id] = "ARM_64"
    /\ OrchestratorDeclared =>
           /\ container_defn_of(N + 1).platform \in {"LINUX_ARM64", "LINUX_AMD64"}
           /\ container_defn_of(N + 1).platform = "LINUX_ARM64"
                  <=> architecture[c6g_medium] = "ARM_64"

C9_Witness ==
    /\ pc = "done" /\ N = 2
    /\ container_defn_of(1).platform = "LINUX_ARM64"
    /\ container_defn_of(2).platform = "LINUX_AMD64"

\* the ids of the constructs in the scope, in declaration order
ChildIds == [k \in DOMAIN children |-> children[k].id]

Outputs == {k \in DOMAIN children : children[k].kind = "CfnOutput"}

OrchestratorIds ==
    <<<<"OrchestratorComputeEnv">>, <<"OrchestratorJobQueue">>,
      <<"OrchestratorContainerDefn">>, <<"OrchestratorJobDefn">>>>

\* C6 as stated: a finished generation from an empty list has declared the
\* orchestrator's resource set and the GitCommit output and nothing else.
C6_Original ==
    (pc = "done" /\ N = 0) =>
        Range(ChildIds) = Range(OrchestratorIds) \cup {<<"GitCommit">>}

\* C6 amended: a finished generation from an empty list has declared, in
\* this order, the Vpc, the orchestrator's compute environment, job queue,
\* container definition and job definition, and the GitCommit output, and
\* nothing else; one that git failed has declared all of these but the output.
C6_EmptyListDeclarations ==
    /\ (pc = "done" /\ N = 0) =>
           ChildIds = <<<<"Vpc">>>> \o OrchestratorIds \o <<<<"GitCommit">>>>
    /\ (raised = "CalledProcessError" /\ N = 0) =>
           ChildIds = <<<<"Vpc">>>> \o OrchestratorIds

C6_Witness == pc = "done" /\ N = 0 /\ Len(children) = 6

\* v is s without its leading and trailing whitespace
IsStripped(v, s) ==
    /\ v # <<>> => v[1] \notin {" ", "\n", "\t"} /\ v[Len(v)] \notin {" ", "\n", "\t"}
    /\ \E lead \in 0..Len(s) :
           /\ lead + Len(v) <= Len(s)
           /\ \A q \in 1..Len(s) :
                  IF q > lead /\ q <= lead + Len(v)
                  THEN s[q] = v[q - lead]
                  ELSE s[q] \in {" ", "\n", "\t"}

\* C7: when git exits non-zero the failure leaves __init__ and no output is
\* declared, under any name; no output exists before generation is done; when
\* generation is done git exited 0 and exactly one output exists, GitCommit,
\* declared last, after the Vpc and all N + 1 resource sets, and its value is
\* git's stdout without the surrounding whitespace.
C7_GitCommitOnlyOnSuccess ==
    /\ (run_result # <<>> /\ run_result[1].returncode # 0) =>
           pc = "raised" /\ raised = "CalledProcessError"
    /\ pc # "done" => Outputs = {}
    /\ pc = "done" =>
           /\ run_result[1].returncode = 0
           /\ Len(children) = 4 * (N + 1) + 2
           /\ Outputs = {Len(children)}
           /\ children[Len(children)].id = <<"GitCommit">>
           /\ IsStripped(children[Len(children)].value, run_result[1].stdout)

C7_Witness ==
    /\ raised = "CalledProcessError" /\ N = 2
    /\ Len(children) = 13 /\ Outputs = {}

\* the derived names of the configured instance types are pairwise distinct
DistinctNames ==
    \A i, j \in 1..N :
        id_with_hyphens(ALL_INSTANCE_TYPES[i].id)
            = id_with_hyphens(ALL_INSTANCE_TYPES[j].id) => i = j

ResourceSets == {<<compute_env_of(k), job_queue_of(k), container_defn_of(k),
                   job_defn_of(k)>> : k \in 1..N}

\* what generation declares for the instance types, as a function of the SET
\* of types: the same for every order of the list
ResourceSetsOf(types) ==
    {PerInstanceConstructs(t, architecture[t.id]) : t \in types}

\* the links and constants of the resource sets once the loop is over
OneToOne ==
    /\ Processed = N
    /\ Len(children) \in {4 * (N + 1) + 1, 4 * (N + 1) + 2}
    /\ Cardinality(ResourceSets) = N
    /\ \A k \in 1..(N + 1) :
           /\ compute_env_of(k).kind = "ManagedEc2EcsComputeEnvironment"
           /\ job_queue_of(k).kind = "JobQueue"
           /\ container_defn_of(k).kind = "EcsEc2ContainerDefinition"
           /\ job_defn_of(k).kind = "EcsJobDefinition"
           /\ job_queue_of(k).compute_environments
                  = <<[compute_environment |-> compute_env_of(k).id, order |-> 0]>>
           /\ job_defn_of(k).container = container_defn_of(k).id
           /\ \A m \in DOMAIN children :
                  children[m].id = compute_env_of(k).id => m = 4 * k - 2
           /\ \A m \in DOMAIN children :
                  children[m].id = container_defn_of(k).id => m = 4 * k
    /\ \A k \in 1..N :
           /\ compute_env_of(k).instance_types = <<ALL_INSTANCE_TYPES[k].id>>
           /\ job_defn_of(k).timeout_hours =
                  "s3_benchmarks.PER_INSTANCE_JOB_TIMEOUT_HOURS"
    /\ job_defn_of(N + 1).timeout_hours =
           "s3_benchmarks.ORCHESTRATOR_JOB_TIMEOUT_HOURS"
    /\ ResourceSets = ResourceSetsOf(Range(ALL_INSTANCE_TYPES))

----------------------------------------------------------------------------
(* Properties of the name derivation (under SpecName) *)

Derived == name_a # <<>>

\* a and b are the same but for '.' standing where the other has '-'
SameButForSeparators(a, b) ==
    /\ Len(a) = Len(b)
    /\ \A q \in DOMAIN a : a[q] = b[q] \/ {a[q], b[q]} = {".", "-"}

\* C5 as stated: the derived name holds no '.', and two distinct ids never
\* derive the same name.
C5_Original ==
    Derived =>
        /\ "." \notin Range(name_a[1]) \cup Range(name_b[1])
        /\ id_a # id_b => name_a[1] # name_b[1]

\* C5 amended: the derived name holds no '.'; two ids derive the same name
\* exactly when they are the same but for '.' standing where the other has
\* '-', so distinct ids without '-' derive distinct names, and with them
\* distinct construct ids.
C5_NamesDistinctButForSeparators ==
    Derived =>
        /\ "." \notin Range(name_a[1]) \cup Range(name_b[1])
        /\ name_a[1] = name_b[1] <=> SameButForSeparators(id_a, id_b)
        /\ ("-" \notin Range(id_a) \cup Range(id_b) /\ id_a # id_b) =>
               /\ name_a[1] # name_b[1]
               /\ <<"PerInstanceComputeEnv-">> \o name_a[1]
                      # <<"PerInstanceComputeEnv-">> \o name_b[1]

C5_Witness ==
    /\ Derived
    /\ id_a = <<"c", "5", ".", "c">> /\ id_b = <<"c", ".", "5", "c">>
    /\ name_a = <<<<"c", "5", "-", "c">>>> /\ name_b = <<<<"c", "-", "5", "c">>>>

====
